---- MODULE Spec2Model ----
(***************************************************************************)
(* Model of the Markdown Styler workspace controller (workspace.js): the   *)
(* custom list-marker editors (bullet sequence, N-ary ordered digits), the *)
(* theme gathering, the debounced preview pipeline with its serial         *)
(* staleness check, the reset, and the PDF export.                         *)
(*                                                                         *)
(* Text is modelled as a sequence of one-character strings so that trim,   *)
(* emptiness tests and number parsing are computed, not assumed.           *)
(* JavaScript numbers are modelled in hundredths (Scale), which is exact   *)
(* for every literal with at most two fraction digits.                     *)
(* Glyphs and Korean status texts are replaced by ASCII stand-ins.         *)
(***************************************************************************)
EXTENDS Integers, Sequences, FiniteSets, TLC

(***************************************************************************)
(* Bounds of the model.                                                    *)
(***************************************************************************)
MaxSchedules == 3
MaxBulletRows == 3
MaxExports == 2

(***************************************************************************)
(* Program constants.                                                      *)
(***************************************************************************)
MinBase == 2
MaxBase == 10
BuiltinBase == 3
DebounceMs == 280
DefaultFontSize == 16

\* hundredths: the unit in which JavaScript numbers are represented
Scale == 10 * 10

(***************************************************************************)
(* Text.                                                                   *)
(***************************************************************************)
DigitChars == <<"0", "1", "2", "3", "4", "5", "6", "7", "8", "9">>

IsDigit(c) == \E k \in DOMAIN DigitChars : DigitChars[k] = c

DigitVal(c) == (CHOOSE k \in DOMAIN DigitChars : DigitChars[k] = c) - 1

IsSpace(c) == c = " "

RECURSIVE TrimLeft(_)
TrimLeft(s) ==
    IF s # <<>> /\ IsSpace(Head(s)) THEN TrimLeft(Tail(s)) ELSE s

RECURSIVE TrimRight(_)
TrimRight(s) ==
    IF s # <<>> /\ IsSpace(s[Len(s)])
    THEN TrimRight(SubSeq(s, 1, Len(s) - 1))
    ELSE s

\* String.prototype.trim
Trim(s) == TrimRight(TrimLeft(s))

\* String(n) for an integer n
RECURSIVE IntToStr(_)
IntToStr(n) ==
    IF n < 0 THEN <<"-">> \o IntToStr(0 - n)
    ELSE IF n < 10 THEN <<DigitChars[n + 1]>>
    ELSE IntToStr(n \div 10) \o <<DigitChars[(n % 10) + 1]>>

RECURSIVE DigitsValue(_)
DigitsValue(s) ==
    IF s = <<>> THEN 0
    ELSE 10 * DigitsValue(SubSeq(s, 1, Len(s) - 1)) + DigitVal(s[Len(s)])

\* a sequence given by its elements, as a tuple
AsSeq(f) == f \o <<>>

\* Op applied to the value of v, with v evaluated once
With(v, Op(_)) == CHOOSE r \in {Op(x) : x \in {v}} : TRUE

(***************************************************************************)
(* JavaScript values reaching Number(): numbers (n in hundredths), NaN,    *)
(* the infinities, strings, null and undefined.                            *)
(***************************************************************************)
Num(n) == [t |-> "number", n |-> n, s |-> <<>>]
NaN == [t |-> "nan", n |-> 0, s |-> <<>>]
PosInf == [t |-> "+inf", n |-> 0, s |-> <<>>]
NegInf == [t |-> "-inf", n |-> 0, s |-> <<>>]
Str(s) == [t |-> "string", n |-> 0, s |-> s]
Null == [t |-> "null", n |-> 0, s |-> <<>>]
Undefined == [t |-> "undefined", n |-> 0, s |-> <<>>]

\* the Number an integer k stands for
NumInt(k) == Num(k * Scale)

\* StringToNumber of a trimmed decimal literal: optional sign, digits with at
\* most one ".", at least one digit; the empty string is 0; the rest NaN.
ParseTrimmed(t) ==
    LET signed == t # <<>> /\ Head(t) \in {"-", "+"}
        body == IF signed THEN Tail(t) ELSE t
        dots == {i \in DOMAIN body : body[i] = "."}
        dot == IF dots = {} THEN Len(body) + 1 ELSE CHOOSE i \in dots : TRUE
        whole == SubSeq(body, 1, dot - 1)
        frac == SubSeq(body, dot + 1, Len(body))
        frac2 == SubSeq(frac \o <<"0", "0">>, 1, 2)
        valid == /\ \A i \in DOMAIN body : IsDigit(body[i]) \/ body[i] = "."
                 /\ Cardinality(dots) <= 1
                 /\ Len(whole) + Len(frac) >= 1
        magnitude == DigitsValue(whole) * Scale + DigitsValue(frac2)
    IN  IF t = <<>> THEN Num(0)
        ELSE IF ~valid THEN NaN
        ELSE IF signed /\ Head(t) = "-" THEN Num(0 - magnitude)
        ELSE Num(magnitude)

StringToNumber(s) == With(Trim(s), ParseTrimmed)

\* Number(value)
ToNumber(v) ==
    CASE v.t = "string" -> StringToNumber(v.s)
      [] v.t = "null" -> Num(0)
      [] v.t = "undefined" -> NaN
      [] OTHER -> v

\* Number.isFinite
IsFinite(v) == v.t = "number"

\* Number.isNaN
IsNaN(v) == v.t = "nan"

MathRoundNone(v) == v

\* Math.round: nearest integer, halves towards +infinity
MathRound(v) ==
    IF v.t = "number" THEN Num(((v.n + (Scale \div 2)) \div Scale) * Scale) ELSE v

\* Math.max(a, b) and Math.min(a, b) with a finite number b
MathMax(a, b) ==
    CASE a.t = "nan" -> NaN
      [] a.t = "+inf" -> PosInf
      [] a.t = "-inf" -> b
      [] OTHER -> IF a.n >= b.n THEN a ELSE b

MathMin(a, b) ==
    CASE a.t = "nan" -> NaN
      [] a.t = "-inf" -> NegInf
      [] a.t = "+inf" -> b
      [] OTHER -> IF a.n <= b.n THEN a ELSE b

parseNumberOr(value, fallback) ==
    With(ToNumber(value), LAMBDA parsed : IF IsFinite(parsed) THEN parsed ELSE fallback)

clamp(value, min, max) ==
    With(value, LAMBDA v : MathMin(MathMax(v, NumInt(min)), NumInt(max)))

\* a number used as a condition: neither 0 nor NaN
Truthy(v) == v.t \in {"+inf", "-inf"} \/ (v.t = "number" /\ v.n # 0)

\* String(number) of a whole number, as stored in an input's value
NumberText(v) == IntToStr(v.n \div Scale)

(***************************************************************************)
(* A theme is a record; "has" holds the names of the fields that are       *)
(* present (neither undefined nor null, and of the expected JSON type).    *)
(***************************************************************************)
Untitled == <<"U", "n", "t", "i", "t", "l", "e", "d">>
MarkdownStyler == <<"M", "a", "r", "k", "d", "o", "w", "n", " ", "S", "t", "y", "l", "e", "r">>
TitleSeparator == <<" ", "|", " ">>

ThemeFields ==
    {"title", "fontFamily", "baseFontSize", "useCustomBullets", "customBulletSequence", "useCustomOrdered",
     "customOrderedDigits", "customOrderedBase", "orderedMarkerPrefix",
     "orderedMarkerSuffix"}

\* JSON.parse("{}"), also the result of a malformed payload
EmptyTheme ==
    [has |-> {}, title |-> <<>>, fontFamily |-> <<>>, baseFontSize |-> Undefined,
     useCustomBullets |-> FALSE,
     customBulletSequence |-> <<>>, useCustomOrdered |-> FALSE,
     customOrderedDigits |-> <<>>, customOrderedBase |-> Undefined,
     orderedMarkerPrefix |-> <<>>, orderedMarkerSuffix |-> <<>>]

\* the default themes the page may be served with
DefaultThemes ==
    { EmptyTheme,
      [EmptyTheme EXCEPT
          !.has = ThemeFields,
          !.title = <<"D">>,
          !.fontFamily = <<"m">>,
          !.baseFontSize = NumInt(18),
          !.useCustomBullets = TRUE,
          !.customBulletSequence = << <<"*">>, <<"o">> >>,
          !.useCustomOrdered = TRUE,
          !.customOrderedDigits = << <<"0">>, <<"1">>, <<"2">> >>,
          !.customOrderedBase = NumInt(3),
          !.orderedMarkerSuffix = <<".">>],
      [EmptyTheme EXCEPT
          !.has = {"useCustomBullets", "customBulletSequence", "useCustomOrdered",
                   "customOrderedDigits", "orderedMarkerPrefix"},
          !.useCustomBullets = TRUE,
          !.customBulletSequence = <<>>,
          !.useCustomOrdered = TRUE,
          !.customOrderedDigits = << <<"a">>, <<>>, <<"c">>, <<"d">> >>,
          !.orderedMarkerPrefix = <<"(">>],
      [EmptyTheme EXCEPT
          !.has = {"title", "baseFontSize", "customOrderedDigits",
                   "customOrderedBase", "useCustomOrdered"},
          !.title = <<" ", "T">>,
          !.baseFontSize = NumInt(0),
          !.useCustomOrdered = TRUE,
          !.customOrderedDigits = << <<"x">>, <<"y">> >>,
          !.customOrderedBase = Str(<<"2", ".", "5">>)] }

VARIABLES
    defaultTheme,         \* the parsed default theme, fixed at load
    urls,                 \* [preview, pdf]: whether each endpoint URL is set
    state,                \* [theme, isPreviewDirty]
    title,                \* elements.title.value
    font,                 \* elements.font.value (a select)
    fontSize,             \* elements.fontSize.value
    markdown,             \* elements.markdown.value
    toggleCustomBullets,  \* elements.toggleCustomBullets.checked
    toggleCustomOrdered,  \* elements.toggleCustomOrdered.checked
    bulletRows,           \* rows of elements.bulletSequenceList
    btnAddBullet,         \* [disabled]
    orderedRows,          \* rows of elements.orderedSequenceList
    customOrderedBase,    \* [value, disabled]
    customOrderedPrefix,  \* [value, disabled]
    customOrderedSuffix,  \* [value, disabled]
    previewTimer,         \* the last timer handle: the n-th setTimeout returns n
    timers,               \* the pending timers of the event loop
    activePreviewSerial,
    inflight,             \* preview requests awaiting a continuation
    previewOutput,        \* [serial, timer]: the request whose html/css is shown
    previewStatus,        \* [text, variant]
    documentTitle,
    lastSettled,          \* history: [serial, outcome] of the last request that ended
    probeArg,             \* argument of a direct call of sanitizeOrderedBase
    probeOut,             \* [done, value, again]: its result, and the result on it
    loadingTemplate,      \* whether elements.loadingTemplate has content
    overlay,              \* the number of .loading-overlay elements in the document
    btnDownload,          \* [disabled]
    exports,              \* downloadPdf invocations awaiting a continuation
    exportCount,          \* history: the number of downloadPdf invocations that sent a request
    alerts,               \* history: [export, message] of every alert raised
    downloads             \* history: [export, name] of every file handed to the browser

scalars == <<font, fontSize>>

dom == <<title, markdown, scalars, toggleCustomBullets, toggleCustomOrdered, bulletRows,
         btnAddBullet, orderedRows, customOrderedBase, customOrderedPrefix,
         customOrderedSuffix>>

bulletDom == <<toggleCustomBullets, bulletRows, btnAddBullet>>

orderedDom == <<toggleCustomOrdered, orderedRows, customOrderedBase,
                customOrderedPrefix, customOrderedSuffix>>

timing == <<previewTimer, timers>>

display == <<previewOutput, previewStatus, documentTitle>>

probe == <<probeArg, probeOut>>

exporting == <<loadingTemplate, overlay, btnDownload, exports, exportCount, alerts,
               downloads>>

vars == <<defaultTheme, urls, state, dom, timing, activePreviewSerial, inflight,
          display, lastSettled, probe, exporting>>

(***************************************************************************)
(* Defaults derived from the default theme at load.                        *)
(***************************************************************************)
Has(theme, field) == field \in theme.has

\* value ?? fallback on a theme field
ensureValue(theme, field, fallback) ==
    IF Has(theme, field) THEN theme[field] ELSE fallback

BuiltinBullets == << <<"*">>, <<"o">>, <<"#">> >>

BuiltinDigits == << <<"0">>, <<"1">>, <<"2">> >>

defaultBulletSequence ==
    IF Has(defaultTheme, "customBulletSequence")
    THEN defaultTheme.customBulletSequence
    ELSE BuiltinBullets

defaultOrderedDigits ==
    IF Has(defaultTheme, "customOrderedDigits")
    THEN defaultTheme.customOrderedDigits
    ELSE BuiltinDigits

\* the number a clamped, rounded base stands for
BaseOf(v) == v.n \div Scale

DEFAULT_ORDERED_BASE ==
    LET len == Len(defaultOrderedDigits)
        fallback == IF len # 0 THEN NumInt(len) ELSE NumInt(BuiltinBase)
        raw == IF Has(defaultTheme, "customOrderedBase")
               THEN defaultTheme.customOrderedBase
               ELSE Undefined
    IN  clamp(MathRound(parseNumberOr(raw, fallback)), MinBase, MaxBase)

sanitizeNoClamp(value) ==
    With(MathRound(parseNumberOr(value, DEFAULT_ORDERED_BASE)),
         LAMBDA parsed : IF IsNaN(parsed) THEN DEFAULT_ORDERED_BASE ELSE parsed)

sanitizeOrderedBase(value) ==
    With(MathRound(parseNumberOr(value, DEFAULT_ORDERED_BASE)),
         LAMBDA parsed : clamp(IF IsNaN(parsed) THEN DEFAULT_ORDERED_BASE ELSE parsed,
                               MinBase, MaxBase))

\* String(number) of a sanitized base, as stored in an input's value
BaseText(v) == IntToStr(BaseOf(v))

(***************************************************************************)
(* The controls as one record, so that a handler is a function on it.      *)
(***************************************************************************)
Dom ==
    [title |-> title, markdown |-> markdown, font |-> font, fontSize |-> fontSize,
     toggleCustomBullets |-> toggleCustomBullets,
     toggleCustomOrdered |-> toggleCustomOrdered,
     bulletRows |-> bulletRows, btnAddBullet |-> btnAddBullet,
     orderedRows |-> orderedRows, customOrderedBase |-> customOrderedBase,
     customOrderedPrefix |-> customOrderedPrefix,
     customOrderedSuffix |-> customOrderedSuffix]

SetDom(c) ==
    /\ title' = c.title
    /\ markdown' = c.markdown
    /\ font' = c.font
    /\ fontSize' = c.fontSize
    /\ toggleCustomBullets' = c.toggleCustomBullets
    /\ toggleCustomOrdered' = c.toggleCustomOrdered
    /\ bulletRows' = c.bulletRows
    /\ btnAddBullet' = c.btnAddBullet
    /\ orderedRows' = c.orderedRows
    /\ customOrderedBase' = c.customOrderedBase
    /\ customOrderedPrefix' = c.customOrderedPrefix
    /\ customOrderedSuffix' = c.customOrderedSuffix

(***************************************************************************)
(* Bullet sequence editor.                                                 *)
(***************************************************************************)
addBulletRowFirst(rows, value) ==
    <<[value |-> value, disabled |-> FALSE, removeDisabled |-> FALSE]>> \o rows

addBulletRow(rows, value) ==
    Append(rows, [value |-> value, disabled |-> FALSE, removeDisabled |-> FALSE])

updateBulletRemoveButtonsNever(rows) ==
    With(rows, LAMBDA rs :
        AsSeq([i \in DOMAIN rs |-> [rs[i] EXCEPT !.removeDisabled = Len(rs) < 1]]))

updateBulletRemoveButtons(rows) ==
    With(rows, LAMBDA rs :
        AsSeq([i \in DOMAIN rs |-> [rs[i] EXCEPT !.removeDisabled = Len(rs) <= 1]]))

RECURSIVE addBulletRows(_, _)
addBulletRows(rows, values) ==
    IF values = <<>> THEN rows
    ELSE addBulletRows(addBulletRow(rows, Head(values)), Tail(values))

renderBulletSequence(values) ==
    LET chosen == IF values # <<>> THEN values ELSE defaultBulletSequence
        effective == IF chosen = <<>> THEN << <<>> >> ELSE chosen
    IN  updateBulletRemoveButtons(addBulletRows(<<>>, effective))

NonEmpty(s) == s # <<>>

TrimAll(values) ==
    With(values, LAMBDA vs : AsSeq([i \in DOMAIN vs |-> Trim(vs[i])]))

RowValues(rows) ==
    With(rows, LAMBDA rs : AsSeq([i \in DOMAIN rs |-> rs[i].value]))

readBulletSequenceUnfiltered(rows) == TrimAll(RowValues(rows))

readBulletSequence(rows) == SelectSeq(TrimAll(RowValues(rows)), NonEmpty)

setBulletEditorDisabled(c, disabled) ==
    [c EXCEPT
        !.btnAddBullet = [disabled |-> disabled],
        !.bulletRows = With(c.bulletRows, LAMBDA rs :
            AsSeq([i \in DOMAIN rs |->
                [rs[i] EXCEPT !.disabled = disabled, !.removeDisabled = disabled]]))]

(***************************************************************************)
(* Ordered digit editor.                                                   *)
(***************************************************************************)
OrderedRowValueFromDefaults(values, i) ==
    IF i + 1 <= Len(defaultOrderedDigits) THEN defaultOrderedDigits[i + 1] ELSE <<>>

\* row i (0-based): values[i] ?? defaultOrderedDigits[i] ?? ""
OrderedRowValue(values, i) ==
    IF i + 1 <= Len(values) THEN values[i + 1]
    ELSE IF i + 1 <= Len(defaultOrderedDigits) THEN defaultOrderedDigits[i + 1]
    ELSE <<>>

\* defaultOrderedDigits[i] ?? String(i)
OrderedRowPlaceholder(i) ==
    IF i + 1 <= Len(defaultOrderedDigits) THEN defaultOrderedDigits[i + 1]
    ELSE IntToStr(i)

renderOrderedSequencePerValue(baseValue, values) ==
    With(<<IF Len(values) > 0 THEN Len(values)
           ELSE BaseOf(sanitizeOrderedBase(baseValue)), values>>, LAMBDA a :
        AsSeq([k \in 1..a[1] |->
            [placeholder |-> OrderedRowPlaceholder(k - 1),
             value |-> OrderedRowValue(a[2], k - 1),
             disabled |-> FALSE]]))

renderOrderedSequence(baseValue, values) ==
    With(<<BaseOf(sanitizeOrderedBase(baseValue)), values>>, LAMBDA a :
        AsSeq([k \in 1..a[1] |->
            [placeholder |-> OrderedRowPlaceholder(k - 1),
             value |-> OrderedRowValue(a[2], k - 1),
             disabled |-> FALSE]]))

readOrderedSequence(rows) == TrimAll(RowValues(rows))

EnsuredDigitUntrimmed(values, i) ==
    IF i + 1 <= Len(values) THEN values[i + 1] ELSE <<>>

\* one digit of ensureOrderedDigits, i 0-based
EnsuredDigit(values, i) ==
    LET candidate == IF i + 1 <= Len(values) THEN Trim(values[i + 1]) ELSE <<>>
    IN  IF candidate # <<>> THEN candidate
        ELSE IF i + 1 <= Len(defaultOrderedDigits)
                /\ defaultOrderedDigits[i + 1] # <<>>
        THEN defaultOrderedDigits[i + 1]
        ELSE IntToStr(i)

ensureOrderedDigits(values, base) ==
    With(<<values, base>>, LAMBDA a :
        AsSeq([k \in 1..a[2] |-> EnsuredDigit(a[1], k - 1)]))

setOrderedEditorDisabled(c, disabled) ==
    [c EXCEPT
        !.customOrderedBase.disabled = disabled,
        !.customOrderedPrefix.disabled = disabled,
        !.customOrderedSuffix.disabled = disabled,
        !.orderedRows = With(c.orderedRows, LAMBDA rs :
            AsSeq([i \in DOMAIN rs |-> [rs[i] EXCEPT !.disabled = disabled]]))]

updateCustomControlsState(c) ==
    With(c, LAMBDA c0 :
        With(setBulletEditorDisabled(c0, ~c0.toggleCustomBullets), LAMBDA bullets :
            setOrderedEditorDisabled(
                [bullets EXCEPT
                    !.bulletRows = updateBulletRemoveButtons(bullets.bulletRows)],
                ~c0.toggleCustomOrdered)))

(***************************************************************************)
(* setControlInitialValues: the controls written from state.theme.         *)
(***************************************************************************)
setControlInitialValues(c, theme) ==
    LET bulletValues == IF Has(theme, "customBulletSequence")
                        THEN theme.customBulletSequence ELSE <<>>
        orderedValues == IF Has(theme, "customOrderedDigits")
                         THEN theme.customOrderedDigits ELSE <<>>
    IN  With(sanitizeOrderedBase(IF Has(theme, "customOrderedBase")
                                 THEN theme.customOrderedBase ELSE Undefined),
             LAMBDA baseValue :
        updateCustomControlsState(
            [c EXCEPT
                !.title = ensureValue(theme, "title", Untitled),
                !.font = IF Has(theme, "fontFamily") /\ theme.fontFamily # <<>>
                         THEN theme.fontFamily ELSE c.font,
                !.fontSize = NumberText(ensureValue(theme, "baseFontSize",
                                                    NumInt(DefaultFontSize))),
                !.bulletRows = renderBulletSequence(bulletValues),
                !.toggleCustomBullets =
                    Has(theme, "useCustomBullets") /\ theme.useCustomBullets
                        /\ Len(bulletValues) > 0,
                !.customOrderedBase.value = BaseText(baseValue),
                !.orderedRows = renderOrderedSequence(baseValue, orderedValues),
                !.toggleCustomOrdered =
                    Has(theme, "useCustomOrdered") /\ theme.useCustomOrdered,
                !.customOrderedPrefix.value =
                    ensureValue(theme, "orderedMarkerPrefix",
                                ensureValue(defaultTheme, "orderedMarkerPrefix", <<>>)),
                !.customOrderedSuffix.value =
                    ensureValue(theme, "orderedMarkerSuffix",
                                ensureValue(defaultTheme, "orderedMarkerSuffix", <<".">>))]))

(***************************************************************************)
(* gatherTheme: the theme read from the controls, and its write of the     *)
(* sanitized base back to the base control.                                *)
(***************************************************************************)
gatherTheme(c) ==
    With(<<readBulletSequence(c.bulletRows),
           ensureOrderedDigits(
               readOrderedSequence(c.orderedRows),
               BaseOf(sanitizeOrderedBase(Str(c.customOrderedBase.value)))),
           Trim(c.title),
           StringToNumber(c.fontSize)>>,
         LAMBDA a :
        [has |-> ThemeFields
                   \ ((IF c.font = <<>> /\ ~Has(defaultTheme, "fontFamily")
                        THEN {"fontFamily"} ELSE {})
                       \cup (IF ~Truthy(a[4]) /\ ~Has(defaultTheme, "baseFontSize")
                             THEN {"baseFontSize"} ELSE {})),
         title |-> IF a[3] # <<>> THEN a[3] ELSE Untitled,
         fontFamily |-> IF c.font # <<>> THEN c.font ELSE defaultTheme.fontFamily,
         baseFontSize |-> IF Truthy(a[4]) THEN a[4] ELSE defaultTheme.baseFontSize,
         useCustomBullets |-> c.toggleCustomBullets /\ Len(a[1]) > 0,
         customBulletSequence |-> a[1],
         useCustomOrdered |-> c.toggleCustomOrdered,
         customOrderedDigits |-> a[2],
         customOrderedBase |-> NumInt(Len(a[2])),
         orderedMarkerPrefix |-> Trim(c.customOrderedPrefix.value),
         orderedMarkerSuffix |-> Trim(c.customOrderedSuffix.value)])

gatherWrite(c) ==
    [c EXCEPT !.customOrderedBase.value =
        BaseText(sanitizeOrderedBase(Str(c.customOrderedBase.value)))]

(***************************************************************************)
(* What the user can type.                                                 *)
(***************************************************************************)
TitleInputs == {<<>>, <<" ", "A", " ">>}

MarkdownInputs == {<<>>, <<"#">>}

BulletInputs == {<<" ">>, <<" ", "b">>}

DigitInputs == {<<" ">>, <<"z", " ">>}

BaseInputs == {<<>>, <<"4">>, <<"x">>, <<"1", "1">>}

InitialMarkdown == <<"m">>

\* the option the font select shows before any script writes it
InitialFont == <<"s">>

FontInputs == {<<"m">>, <<"k">>}

FontSizeInputs == {<<"1", "4">>, <<"2", "0">>}

MarkerInputs == {<<>>, <<" ", ")">>}

(***************************************************************************)
(* The debounce timer and the preview request.                             *)
(***************************************************************************)
clearTimeoutNoop(pending, handle) == pending

clearTimeout(pending, handle) == {t \in pending : t.id # handle}

setTimeout(pending, handle, delay) == pending \cup {[id |-> handle, delay |-> delay]}

\* schedulePreview, in a handler that leaves state.theme as newTheme
schedulePreview(immediate, newTheme) ==
    /\ state' = [theme |-> newTheme, isPreviewDirty |-> TRUE]
    /\ previewTimer' = previewTimer + 1
    /\ timers' = setTimeout(clearTimeout(timers, previewTimer), previewTimer + 1,
                            IF immediate THEN 0 ELSE DebounceMs)

\* the guard that bounds the number of schedulePreview calls of a run
MayCall == previewTimer < MaxSchedules

\* the status element before updateStatus has run
StatusServed == [text |-> "", variant |-> "idle"]
StatusLoading == [text |-> "rendering", variant |-> "loading"]
StatusApplied == [text |-> "applied", variant |-> "idle"]
StatusError(message) ==
    [text |-> IF message # "" THEN message ELSE "preview error", variant |-> "error"]

DecoratedTitle(t) == t \o TitleSeparator \o MarkdownStyler

\* ${state.theme.title}: the text a template literal gives for the title
TitleText(theme) ==
    IF Has(theme, "title") THEN theme.title
    ELSE <<"u", "n", "d", "e", "f", "i", "n", "e", "d">>

NextSerialSame(serial) == serial

\* ++activePreviewSerial
NextSerial(serial) == serial + 1

IsStaleNever(serial) == FALSE

\* serial !== activePreviewSerial
IsStale(serial) == serial # activePreviewSerial

HttpErrorCodes == {"500"}

PayloadErrors == {"", "render failed"}

RejectMessages == {"", "Failed to fetch"}

RequestFailed(code) == "preview request failed (" \o code \o ")"

RequestBodyBeforeGather(text, theme) ==
    [markdown |-> text, theme |-> state.theme, title |-> state.theme.title]

\* JSON.stringify({ markdown, theme: state.theme, title: state.theme.title }),
\* evaluated right after state.theme = gatherTheme(): the text handed to fetch
RequestBody(text, theme) ==
    [markdown |-> text, theme |-> theme, title |-> theme.title]

\* runPreview up to its first await: the timer t fires
TimerFire(t) ==
    /\ t \in timers
    /\ timers' = timers \ {t}
    /\ UNCHANGED <<defaultTheme, urls, previewTimer, previewOutput, documentTitle,
                   lastSettled, probe, exporting>>
    /\ IF ~urls.preview
       THEN UNCHANGED <<state, dom, activePreviewSerial, inflight, previewStatus>>
       ELSE \E theme \in {gatherTheme(Dom)} :
            /\ state' = [state EXCEPT !.theme = theme]
            /\ customOrderedBase' = gatherWrite(Dom).customOrderedBase
            /\ UNCHANGED <<title, markdown, scalars, toggleCustomBullets, toggleCustomOrdered,
                           bulletRows, btnAddBullet, orderedRows, customOrderedPrefix,
                           customOrderedSuffix>>
            /\ previewStatus' = StatusLoading
            /\ activePreviewSerial' = NextSerial(activePreviewSerial)
            /\ \E body \in {RequestBody(markdown, theme)} :
                 inflight' = inflight \cup
                  {[serial |-> NextSerial(activePreviewSerial), timer |-> t.id,
                    pc |-> "fetch", code |-> "",
                    markdown |-> body.markdown, theme |-> body.theme,
                    title |-> body.title]}

\* fetch resolves with a 2xx response: runPreview awaits response.json()
FetchResolveOk(r) ==
    /\ r \in inflight /\ r.pc = "fetch"
    /\ inflight' = (inflight \ {r}) \cup {[r EXCEPT !.pc = "json"]}
    /\ UNCHANGED <<defaultTheme, urls, state, dom, timing, activePreviewSerial,
                   display, lastSettled, probe, exporting>>

\* fetch resolves with a non-2xx response: awaits response.json().catch(...)
FetchResolveError(r, code) ==
    /\ r \in inflight /\ r.pc = "fetch"
    /\ inflight' = (inflight \ {r}) \cup {[r EXCEPT !.pc = "errorBody", !.code = code]}
    /\ UNCHANGED <<defaultTheme, urls, state, dom, timing, activePreviewSerial,
                   display, lastSettled, probe, exporting>>

CatchBlanksPreview(r, message) ==
    /\ inflight' = inflight \ {r}
    /\ previewStatus' = StatusError(message)
    /\ lastSettled' = [serial |-> r.serial, outcome |-> "error"]
    /\ previewOutput' = [serial |-> 0, timer |-> 0]
    /\ UNCHANGED <<defaultTheme, urls, state, dom, timing, activePreviewSerial,
                   documentTitle, probe, exporting>>

CatchKeepsStatus(r, message) ==
    /\ inflight' = inflight \ {r}
    /\ lastSettled' = [serial |-> r.serial, outcome |-> "error"]
    /\ UNCHANGED <<defaultTheme, urls, state, dom, timing, activePreviewSerial,
                   display, probe, exporting>>

\* the catch block
Catch(r, message) ==
    /\ inflight' = inflight \ {r}
    /\ previewStatus' = StatusError(message)
    /\ lastSettled' = [serial |-> r.serial, outcome |-> "error"]
    /\ UNCHANGED <<defaultTheme, urls, state, dom, timing, activePreviewSerial,
                   previewOutput, documentTitle, probe, exporting>>

\* fetch rejects (network failure)
FetchReject(r, message) ==
    /\ r \in inflight /\ r.pc = "fetch"
    /\ Catch(r, message)

\* the error body is read (or not): throw new Error(payload.error || generic)
ErrorBody(r, error) ==
    /\ r \in inflight /\ r.pc = "errorBody"
    /\ Catch(r, IF error # "" THEN error ELSE RequestFailed(r.code))

\* response.json() of a 2xx response rejects (malformed body)
JsonReject(r, message) ==
    /\ r \in inflight /\ r.pc = "json"
    /\ Catch(r, message)

\* response.json() resolves: the serial check and the application
JsonResolve(r) ==
    /\ r \in inflight /\ r.pc = "json"
    /\ inflight' = inflight \ {r}
    /\ UNCHANGED <<defaultTheme, urls, dom, timing, activePreviewSerial, probe, exporting>>
    /\ IF IsStale(r.serial)
       THEN /\ lastSettled' = [serial |-> r.serial, outcome |-> "stale"]
            /\ UNCHANGED <<state, display>>
       ELSE /\ lastSettled' = [serial |-> r.serial, outcome |-> "applied"]
            /\ previewOutput' = [serial |-> r.serial, timer |-> r.timer]
            /\ documentTitle' = DecoratedTitle(TitleText(state.theme))
            /\ previewStatus' = StatusApplied
            /\ state' = [state EXCEPT !.isPreviewDirty = FALSE]

(***************************************************************************)
(* The user's events and their listeners.                                  *)
(***************************************************************************)
Unchanged == UNCHANGED <<defaultTheme, urls, activePreviewSerial, inflight,
                         display, lastSettled, probe, exporting>>

EditTitle(v) ==
    /\ MayCall /\ v # title
    /\ title' = v
    /\ UNCHANGED <<markdown, scalars, bulletDom, orderedDom>>
    /\ schedulePreview(FALSE, state.theme)
    /\ Unchanged

EditMarkdown(v) ==
    /\ MayCall /\ v # markdown
    /\ markdown' = v
    /\ UNCHANGED <<title, scalars, bulletDom, orderedDom>>
    /\ schedulePreview(FALSE, state.theme)
    /\ Unchanged

ClickPreview ==
    /\ MayCall
    /\ schedulePreview(TRUE, state.theme)
    /\ UNCHANGED dom
    /\ Unchanged

ToggleCustomBullets ==
    /\ MayCall
    /\ \E c \in {updateCustomControlsState(
                    [Dom EXCEPT !.toggleCustomBullets = ~toggleCustomBullets])} :
          SetDom(c)
    /\ schedulePreview(FALSE, state.theme)
    /\ Unchanged

ToggleCustomOrdered ==
    /\ MayCall
    /\ \E c \in {updateCustomControlsState(
                    [Dom EXCEPT !.toggleCustomOrdered = ~toggleCustomOrdered])} :
          SetDom(c)
    /\ schedulePreview(FALSE, state.theme)
    /\ Unchanged

EditBulletRow(i, v) ==
    /\ MayCall
    /\ i \in DOMAIN bulletRows
    /\ ~bulletRows[i].disabled /\ v # bulletRows[i].value
    /\ bulletRows' = [bulletRows EXCEPT ![i].value = v]
    /\ UNCHANGED <<title, markdown, scalars, toggleCustomBullets, btnAddBullet, orderedDom>>
    /\ schedulePreview(FALSE, state.theme)
    /\ Unchanged

RemoveAt(rows, i) == SubSeq(rows, 1, i - 1) \o SubSeq(rows, i + 1, Len(rows))

RemoveBulletRow(i) ==
    /\ MayCall
    /\ i \in DOMAIN bulletRows
    /\ ~bulletRows[i].removeDisabled
    /\ bulletRows' = updateBulletRemoveButtons(RemoveAt(bulletRows, i))
    /\ UNCHANGED <<title, markdown, scalars, toggleCustomBullets, btnAddBullet, orderedDom>>
    /\ schedulePreview(TRUE, state.theme)
    /\ Unchanged

AddBullet ==
    /\ MayCall
    /\ ~btnAddBullet.disabled
    /\ Len(bulletRows) < MaxBulletRows
    /\ bulletRows' = updateBulletRemoveButtons(addBulletRow(bulletRows, <<>>))
    /\ UNCHANGED <<title, markdown, scalars, toggleCustomBullets, btnAddBullet, orderedDom>>
    /\ schedulePreview(TRUE, state.theme)
    /\ Unchanged

EditDigitRow(i, v) ==
    /\ MayCall
    /\ i \in DOMAIN orderedRows
    /\ ~orderedRows[i].disabled /\ v # orderedRows[i].value
    /\ orderedRows' = [orderedRows EXCEPT ![i].value = v]
    /\ UNCHANGED <<title, markdown, scalars, bulletDom, toggleCustomOrdered, customOrderedBase,
                   customOrderedPrefix, customOrderedSuffix>>
    /\ schedulePreview(FALSE, state.theme)
    /\ Unchanged

\* the base control's "input" listener, after the user typed v
BaseInput(v) ==
    /\ MayCall
    /\ ~customOrderedBase.disabled /\ v # customOrderedBase.value
    /\ \E currentValues \in {readOrderedSequence(orderedRows)} :
       \E nextBase \in {sanitizeOrderedBase(Str(v))} :
       \E c \in {updateCustomControlsState(
                    [Dom EXCEPT !.customOrderedBase.value = v,
                                !.orderedRows =
                                    renderOrderedSequence(nextBase, currentValues)])} :
          SetDom(c)
    /\ schedulePreview(FALSE, state.theme)
    /\ Unchanged

\* the base control's "change" listener
BaseChange ==
    /\ MayCall
    /\ ~customOrderedBase.disabled
    /\ \E currentValues \in {readOrderedSequence(orderedRows)} :
       \E nextBase \in {sanitizeOrderedBase(Str(customOrderedBase.value))} :
       \E c \in {updateCustomControlsState(
                    [Dom EXCEPT !.customOrderedBase.value = BaseText(nextBase),
                                !.orderedRows =
                                    renderOrderedSequence(nextBase, currentValues)])} :
          SetDom(c)
    /\ schedulePreview(TRUE, state.theme)
    /\ Unchanged

InitialTitle(theme) == ensureValue(theme, "title", MarkdownStyler)

ClickReset ==
    /\ MayCall
    /\ \E c \in {setControlInitialValues(Dom, defaultTheme)} : SetDom(c)
    /\ documentTitle' = InitialTitle(defaultTheme)
    /\ schedulePreview(TRUE, defaultTheme)
    /\ UNCHANGED <<defaultTheme, urls, activePreviewSerial, inflight,
                   previewOutput, previewStatus, lastSettled, probe, exporting>>

\* the "input" listener of a scalar control: the font select
EditFont(v) ==
    /\ MayCall /\ v # font
    /\ font' = v
    /\ UNCHANGED <<title, markdown, fontSize, bulletDom, orderedDom>>
    /\ schedulePreview(FALSE, state.theme)
    /\ Unchanged

\* the "input" listener of a scalar control: the font size
EditFontSize(v) ==
    /\ MayCall /\ v # fontSize
    /\ fontSize' = v
    /\ UNCHANGED <<title, markdown, font, bulletDom, orderedDom>>
    /\ schedulePreview(FALSE, state.theme)
    /\ Unchanged

EditPrefix(v) ==
    /\ MayCall
    /\ ~customOrderedPrefix.disabled /\ v # customOrderedPrefix.value
    /\ customOrderedPrefix' = [customOrderedPrefix EXCEPT !.value = v]
    /\ UNCHANGED <<title, markdown, scalars, bulletDom, toggleCustomOrdered,
                   orderedRows, customOrderedBase, customOrderedSuffix>>
    /\ schedulePreview(FALSE, state.theme)
    /\ Unchanged

EditSuffix(v) ==
    /\ MayCall
    /\ ~customOrderedSuffix.disabled /\ v # customOrderedSuffix.value
    /\ customOrderedSuffix' = [customOrderedSuffix EXCEPT !.value = v]
    /\ UNCHANGED <<title, markdown, scalars, bulletDom, toggleCustomOrdered,
                   orderedRows, customOrderedBase, customOrderedPrefix>>
    /\ schedulePreview(FALSE, state.theme)
    /\ Unchanged

(***************************************************************************)
(* The PDF export.                                                         *)
(***************************************************************************)
toggleLoadingNeverHides(present, isLoading) ==
    IF present > 0 THEN present
    ELSE IF isLoading /\ loadingTemplate THEN 1 ELSE 0

\* toggleLoading, from present overlays in the document: the number of
\* overlays in the document afterwards
toggleLoading(present, isLoading) ==
    IF isLoading
    THEN IF present > 0 THEN present
         ELSE IF loadingTemplate THEN 1 ELSE 0
    ELSE IF present > 0 THEN present - 1 ELSE 0

AlertGeneric == "cannot create PDF"

ExportFailed(code) == "PDF creation failed (" \o code \o ")"

Document == <<"D", "o", "c", "u", "m", "e", "n", "t">>

\* state.theme.title || "Document"
DownloadName(theme) ==
    IF Has(theme, "title") /\ theme.title # <<>> THEN theme.title ELSE Document

PreviewUntouched ==
    UNCHANGED <<defaultTheme, urls, timing, activePreviewSerial, inflight, display,
                lastSettled, probe, loadingTemplate>>

\* downloadPdf up to its first await: the click on the download button
ClickDownload ==
    /\ ~btnDownload.disabled
    /\ exportCount < MaxExports
    /\ PreviewUntouched
    /\ UNCHANGED <<title, markdown, scalars, toggleCustomBullets, toggleCustomOrdered,
                   bulletRows, btnAddBullet, orderedRows, customOrderedPrefix,
                   customOrderedSuffix, alerts, downloads>>
    /\ IF ~urls.pdf
       THEN UNCHANGED <<state, customOrderedBase, overlay, btnDownload, exports,
                        exportCount>>
       ELSE \E theme \in {gatherTheme(Dom)} :
            /\ state' = [state EXCEPT !.theme = theme]
            /\ customOrderedBase' = gatherWrite(Dom).customOrderedBase
            /\ overlay' = toggleLoading(overlay, TRUE)
            /\ btnDownload' = [disabled |-> TRUE]
            /\ exportCount' = exportCount + 1
            /\ \E body \in {RequestBody(markdown, theme)} :
                 exports' = exports \cup
                  {[id |-> exportCount + 1, pc |-> "fetch", code |-> "",
                    overlay |-> toggleLoading(overlay, TRUE) > 0,
                    markdown |-> body.markdown, theme |-> body.theme,
                    title |-> body.title]}

ExportFetchOkEnablesTrigger(x) ==
    /\ x \in exports /\ x.pc = "fetch"
    /\ exports' = (exports \ {x}) \cup {[x EXCEPT !.pc = "blob"]}
    /\ btnDownload' = [disabled |-> FALSE]
    /\ PreviewUntouched
    /\ UNCHANGED <<state, dom, overlay, exportCount, alerts, downloads>>

\* fetch resolves with a 2xx response: downloadPdf awaits response.blob()
ExportFetchOk(x) ==
    /\ x \in exports /\ x.pc = "fetch"
    /\ exports' = (exports \ {x}) \cup {[x EXCEPT !.pc = "blob"]}
    /\ PreviewUntouched
    /\ UNCHANGED <<state, dom, overlay, btnDownload, exportCount, alerts, downloads>>

\* fetch resolves with a non-2xx response: awaits response.json().catch(...)
ExportFetchError(x, code) ==
    /\ x \in exports /\ x.pc = "fetch"
    /\ exports' = (exports \ {x}) \cup {[x EXCEPT !.pc = "errorBody", !.code = code]}
    /\ PreviewUntouched
    /\ UNCHANGED <<state, dom, overlay, btnDownload, exportCount, alerts, downloads>>

\* the finally block, the last step of every path
Finally(x) ==
    /\ exports' = exports \ {x}
    /\ overlay' = IF x.overlay THEN toggleLoading(overlay, FALSE) ELSE overlay
    /\ btnDownload' = [disabled |-> FALSE]
    /\ PreviewUntouched
    /\ UNCHANGED <<state, dom, exportCount>>

ExportCatchSilent(x, message) ==
    /\ UNCHANGED <<alerts, downloads>>
    /\ Finally(x)

\* the catch block, followed by the finally block
ExportCatch(x, message) ==
    /\ alerts' = Append(alerts, [export |-> x.id,
                                 message |-> IF message # "" THEN message
                                             ELSE AlertGeneric])
    /\ UNCHANGED downloads
    /\ Finally(x)

\* fetch rejects (network failure)
ExportFetchReject(x, message) ==
    /\ x \in exports /\ x.pc = "fetch"
    /\ ExportCatch(x, message)

\* the error body is read (or not): throw new Error(payload.error || generic)
ExportErrorBody(x, error) ==
    /\ x \in exports /\ x.pc = "errorBody"
    /\ ExportCatch(x, IF error # "" THEN error ELSE ExportFailed(x.code))

\* response.blob() rejects (failure while reading the body)
ExportBlobReject(x, message) ==
    /\ x \in exports /\ x.pc = "blob"
    /\ ExportCatch(x, message)

\* response.blob() resolves: the file is handed to the browser
ExportBlobResolve(x) ==
    /\ x \in exports /\ x.pc = "blob"
    /\ downloads' = Append(downloads, [export |-> x.id,
                                       name |-> DownloadName(state.theme)])
    /\ UNCHANGED alerts
    /\ Finally(x)

(***************************************************************************)
(* A direct call of sanitizeOrderedBase on an arbitrary value.             *)
(***************************************************************************)
RawValues ==
    {Null, Undefined, NaN, PosInf, NegInf}
    \cup {Num(n) : n \in {0 - 350, 0 - 50, 0, 49, 50, 149, 150, 151, 200, 250, 449,
                          450, 949, 950, 1000, 1049, 1050, 1100, 100000}}
    \cup {Str(s) : s \in {<<>>, <<" ">>, <<"x">>, <<"5">>, <<" ", "7", " ">>,
                          <<"-", "3">>, <<"+", "9">>, <<"2", ".", "5">>,
                          <<"9", ".", "5">>, <<"1", "0", ".", "5">>, <<".", "5">>,
                          <<"3", ".">>, <<".">>, <<"1", "1">>, <<"4", "x">>,
                          <<"1", ".", "4", "9">>, <<"-">>, <<"1", " ", "2">>}}

ApplySanitize ==
    /\ ~probeOut.done
    /\ \E once \in {sanitizeOrderedBase(probeArg)} :
          probeOut' = [done |-> TRUE, value |-> once,
                       again |-> sanitizeOrderedBase(once)]
    /\ UNCHANGED <<defaultTheme, urls, state, dom, timing, activePreviewSerial,
                   inflight, display, lastSettled, probeArg, exporting>>

(***************************************************************************)
(* The state after the script has run: controls written from the default   *)
(* theme, the document title set, one immediate preview scheduled.         *)
(***************************************************************************)
BlankDom ==
    [title |-> <<>>, markdown |-> InitialMarkdown,
     font |-> InitialFont, fontSize |-> <<>>,
     toggleCustomBullets |-> FALSE, toggleCustomOrdered |-> FALSE,
     bulletRows |-> <<>>, btnAddBullet |-> [disabled |-> FALSE],
     orderedRows |-> <<>>,
     customOrderedBase |-> [value |-> <<>>, disabled |-> FALSE],
     customOrderedPrefix |-> [value |-> <<>>, disabled |-> FALSE],
     customOrderedSuffix |-> [value |-> <<>>, disabled |-> FALSE]]

InitDom(c) ==
    /\ title = c.title
    /\ markdown = c.markdown
    /\ font = c.font
    /\ fontSize = c.fontSize
    /\ toggleCustomBullets = c.toggleCustomBullets
    /\ toggleCustomOrdered = c.toggleCustomOrdered
    /\ bulletRows = c.bulletRows
    /\ btnAddBullet = c.btnAddBullet
    /\ orderedRows = c.orderedRows
    /\ customOrderedBase = c.customOrderedBase
    /\ customOrderedPrefix = c.customOrderedPrefix
    /\ customOrderedSuffix = c.customOrderedSuffix

Loaded ==
    /\ defaultTheme \in DefaultThemes
    /\ state = [theme |-> defaultTheme, isPreviewDirty |-> TRUE]
    /\ \E c \in {setControlInitialValues(BlankDom, defaultTheme)} : InitDom(c)
    /\ documentTitle = InitialTitle(defaultTheme)
    /\ previewTimer = 1
    /\ timers = setTimeout({}, 1, 0)
    /\ activePreviewSerial = 0
    /\ inflight = {}
    /\ previewOutput = [serial |-> 0, timer |-> 0]
    /\ previewStatus = StatusServed
    /\ lastSettled = [serial |-> 0, outcome |-> "none"]
    /\ overlay = 0
    /\ btnDownload = [disabled |-> FALSE]
    /\ exports = {}
    /\ exportCount = 0
    /\ alerts = <<>>
    /\ downloads = <<>>

Init ==
    /\ Loaded
    /\ urls \in {[preview |-> p, pdf |-> TRUE] : p \in BOOLEAN}
    /\ loadingTemplate = TRUE
    /\ probeArg = Undefined
    /\ probeOut = [done |-> FALSE, value |-> NaN, again |-> NaN]

Responses ==
    \/ \E r \in inflight : FetchResolveOk(r)
    \/ \E r \in inflight : \E code \in HttpErrorCodes : FetchResolveError(r, code)
    \/ \E r \in inflight : \E m \in RejectMessages : FetchReject(r, m)
    \/ \E r \in inflight : \E e \in PayloadErrors : ErrorBody(r, e)
    \/ \E r \in inflight : \E m \in RejectMessages : JsonReject(r, m)
    \/ \E r \in inflight : JsonResolve(r)

\* the preview pipeline under edits of the title and the markdown text
Next ==
    \/ \E v \in TitleInputs : EditTitle(v)
    \/ \E v \in MarkdownInputs : EditMarkdown(v)
    \/ ClickPreview
    \/ ClickReset
    \/ \E t \in timers : TimerFire(t)
    \/ Responses

Spec == Init /\ [][Next]_vars

\* the list-marker editors and the dispatch of previews; the responses to the
\* requests are left out
EditorNext ==
    \/ ToggleCustomBullets
    \/ ToggleCustomOrdered
    \/ \E i \in DOMAIN bulletRows : \E v \in BulletInputs : EditBulletRow(i, v)
    \/ \E i \in DOMAIN bulletRows : RemoveBulletRow(i)
    \/ AddBullet
    \/ \E i \in DOMAIN orderedRows : \E v \in DigitInputs : EditDigitRow(i, v)
    \/ \E v \in BaseInputs : BaseInput(v)
    \/ BaseChange
    \/ ClickReset
    \/ \E t \in timers : TimerFire(t)

EditorSpec == Init /\ [][EditorNext]_vars

\* the preview pipeline with a server that answers every request with
\* success, every timer firing and every answer arriving eventually
LiveNext ==
    \/ \E v \in TitleInputs : EditTitle(v)
    \/ ClickPreview
    \/ \E t \in timers : TimerFire(t)
    \/ \E r \in inflight : FetchResolveOk(r)
    \/ \E r \in inflight : JsonResolve(r)

LiveSpec ==
    /\ Init
    /\ [][LiveNext]_vars
    /\ WF_vars(\E t \in timers : TimerFire(t))
    /\ WF_vars(\E r \in inflight : FetchResolveOk(r))
    /\ WF_vars(\E r \in inflight : JsonResolve(r))

\* sanitizeOrderedBase on its own
SanitizeInit ==
    /\ Loaded
    /\ urls \in {[preview |-> p, pdf |-> TRUE] : p \in BOOLEAN}
    /\ loadingTemplate = TRUE
    /\ probeArg \in RawValues
    /\ probeOut = [done |-> FALSE, value |-> NaN, again |-> NaN]

SanitizeNext == ApplySanitize

SanitizeSpec == SanitizeInit /\ [][SanitizeNext]_vars

\* the export next to edits and preview dispatches: the page with or without
\* an export URL and a loading template, served with no default theme or
\* with a complete one
ExportInit ==
    /\ Loaded
    /\ defaultTheme.has \in {{}, ThemeFields}
    /\ urls \in {[preview |-> TRUE, pdf |-> q] : q \in BOOLEAN}
    /\ loadingTemplate \in BOOLEAN
    /\ probeArg = Undefined
    /\ probeOut = [done |-> FALSE, value |-> NaN, again |-> NaN]

ExportResponses ==
    \/ \E x \in exports : ExportFetchOk(x)
    \/ \E x \in exports : \E code \in HttpErrorCodes : ExportFetchError(x, code)
    \/ \E x \in exports : \E m \in RejectMessages : ExportFetchReject(x, m)
    \/ \E x \in exports : \E e \in PayloadErrors : ExportErrorBody(x, e)
    \/ \E x \in exports : \E m \in RejectMessages : ExportBlobReject(x, m)
    \/ \E x \in exports : ExportBlobResolve(x)

ExportNext ==
    \/ ClickDownload
    \/ ExportResponses
    \/ \E v \in TitleInputs : EditTitle(v)
    \/ \E t \in timers : TimerFire(t)

ExportSpec == ExportInit /\ [][ExportNext]_vars

\* the export and the initial preview dispatch, every export continuation
\* running eventually
ExportLiveNext ==
    \/ ClickDownload
    \/ ExportResponses
    \/ \E t \in timers : TimerFire(t)

ExportLiveSpec ==
    /\ ExportInit
    /\ [][ExportLiveNext]_vars
    /\ WF_vars(ExportResponses)

\* the preview pipeline with its responses next to the export, on the page
\* served without a default theme
SerialInit ==
    /\ Init
    /\ defaultTheme = EmptyTheme
    /\ urls.preview

SerialNext ==
    \/ \E v \in TitleInputs : EditTitle(v)
    \/ \E t \in timers : TimerFire(t)
    \/ \E r \in inflight : FetchResolveOk(r)
    \/ \E r \in inflight : \E m \in RejectMessages : FetchReject(r, m)
    \/ \E r \in inflight : JsonResolve(r)
    \/ ClickDownload
    \/ \E x \in exports : ExportFetchOk(x)
    \/ \E x \in exports : ExportBlobResolve(x)

SerialSpec == SerialInit /\ [][SerialNext]_vars

\* edits of every kind of theme control, and the reset
ResetNext ==
    \/ \E v \in TitleInputs : EditTitle(v)
    \/ \E v \in FontInputs : EditFont(v)
    \/ \E v \in FontSizeInputs : EditFontSize(v)
    \/ \E v \in MarkerInputs : EditPrefix(v)
    \/ \E v \in MarkerInputs : EditSuffix(v)
    \/ ToggleCustomBullets
    \/ ToggleCustomOrdered
    \/ \E i \in DOMAIN bulletRows : \E v \in BulletInputs : EditBulletRow(i, v)
    \/ \E i \in DOMAIN bulletRows : RemoveBulletRow(i)
    \/ AddBullet
    \/ \E i \in DOMAIN orderedRows : \E v \in DigitInputs : EditDigitRow(i, v)
    \/ \E v \in BaseInputs : BaseInput(v)
    \/ ClickReset

ResetSpec == Init /\ [][ResetNext]_vars

\* previews and exports in flight together, under edits and resets, every
\* request answered with success; the page served with no default theme or
\* with a complete one
RaceInit ==
    /\ Init
    /\ defaultTheme.has \in {{}, ThemeFields}
    /\ urls.preview

RaceNext ==
    \/ \E v \in TitleInputs : EditTitle(v)
    \/ \E v \in MarkdownInputs : EditMarkdown(v)
    \/ ClickReset
    \/ \E t \in timers : TimerFire(t)
    \/ \E r \in inflight : FetchResolveOk(r)
    \/ \E r \in inflight : JsonResolve(r)
    \/ ClickDownload
    \/ \E x \in exports : ExportFetchOk(x)
    \/ \E x \in exports : ExportBlobResolve(x)

RaceSpec == RaceInit /\ [][RaceNext]_vars

\* the dispatches of both kinds under edits and resets, every request ending
\* in a network failure
PayloadNext ==
    \/ \E v \in TitleInputs : EditTitle(v)
    \/ \E v \in MarkdownInputs : EditMarkdown(v)
    \/ ClickReset
    \/ \E t \in timers : TimerFire(t)
    \/ \E r \in inflight : FetchReject(r, "Failed to fetch")
    \/ ClickDownload
    \/ \E x \in exports : ExportFetchReject(x, "Failed to fetch")

PayloadSpec == RaceInit /\ [][PayloadNext]_vars

\* the base control and the digit rows under every handler that reads or
\* writes them, gathers for preview and for export included; the first digit
\* row is the one edited
BaseNext ==
    \/ \E v \in BaseInputs : BaseInput(v)
    \/ BaseChange
    \/ ToggleCustomOrdered
    \/ \E v \in DigitInputs : EditDigitRow(1, v)
    \/ ClickReset
    \/ \E t \in timers : TimerFire(t)
    \/ ClickDownload
    \/ \E x \in exports : ExportFetchReject(x, "Failed to fetch")

BaseSpec == Init /\ [][BaseNext]_vars

(***************************************************************************)
(* Properties of the preview pipeline.                                     *)
(***************************************************************************)

\* C1: the serial of the request whose html/css is displayed never decreases,
\* whatever order the responses arrive in: a response for s1 that arrives
\* after the response for s2 > s1 was applied is not applied, and whatever is
\* newly displayed is the result of the request with the active serial.
C1_DisplayedSerialNeverDecreases ==
    [][/\ previewOutput'.serial >= previewOutput.serial
       /\ previewOutput' # previewOutput
            => previewOutput'.serial = activePreviewSerial]_vars

\* request 1 answered after request 2 was applied, and discarded
C1_Witness ==
    /\ previewOutput.serial = 2
    /\ lastSettled = [serial |-> 1, outcome |-> "stale"]

\* C2: a schedulePreview call made while a timer is pending cancels that timer
\* and sends nothing, so the calls of a burst share one timer; when that timer
\* fires exactly one request is sent, and its payload is the theme and the
\* markdown gathered from the controls at that moment.
C2_BurstSendsOneRequest ==
    [][/\ previewTimer' # previewTimer
            => /\ timers' = {t \in timers' : t.id = previewTimer'}
               /\ Cardinality(timers') = 1
               /\ inflight' = inflight
               /\ activePreviewSerial' = activePreviewSerial
       /\ activePreviewSerial' # activePreviewSerial
            => /\ \E t \in timers : t.id = previewTimer /\ timers = {t}
               /\ timers' = {}
               /\ \E r \in inflight' \ inflight :
                    /\ inflight' = inflight \cup {r}
                    /\ r.serial = activePreviewSerial'
                    /\ r.timer = previewTimer
                    /\ r.markdown = markdown
                    /\ r.theme = gatherTheme(Dom)]_vars

\* two edits before the first timer fired, both carried by the first request
C2_Witness ==
    \E r \in inflight :
        /\ r.serial = 1 /\ r.timer = 3
        /\ r.theme.title = <<"A">>
        /\ r.markdown = <<"#">>

\* C3: when every request is answered with success, eventually and from then
\* on the preview shows the response to the request dispatched for the last
\* schedulePreview call, in whatever order the responses arrived.
C3_LastScheduledWins ==
    <>[](urls.preview =>
            /\ timers = {} /\ inflight = {}
            /\ previewOutput = [serial |-> activePreviewSerial, timer |-> previewTimer])

\* the responses arrived out of order and the last request's result is shown
C3_Witness ==
    /\ timers = {} /\ inflight = {}
    /\ activePreviewSerial >= 2
    /\ lastSettled.outcome = "stale"
    /\ previewOutput = [serial |-> activePreviewSerial, timer |-> previewTimer]

\* C4: a response whose serial differs from the active serial changes neither
\* the preview, nor the document title, nor the status message, also when it
\* is an error.
C4_StaleResponseChangesNothing ==
    [][\A r \in inflight :
          (r.serial # activePreviewSerial /\ r \notin inflight')
              => UNCHANGED <<previewOutput, documentTitle, previewStatus>>]_vars

\* C5 as stated: at most one preview request is in flight.
C5_AtMostOneInFlight == Cardinality(inflight) <= 1

\* C5 amended: several requests may be in flight; they carry distinct serials,
\* none above the active serial, so at most one of them carries the active
\* serial and can be applied.
C5_AtMostOneCurrentInFlight ==
    /\ \A r1, r2 \in inflight : r1.serial = r2.serial => r1 = r2
    /\ \A r \in inflight : r.serial >= 1 /\ r.serial <= activePreviewSerial

C5_Witness ==
    \E r1, r2 \in inflight : r1.serial = 1 /\ r2.serial = 2

\* the request r ends in this step
Ends(r) == \A q \in inflight' : q.serial # r.serial

\* C14: a preview request that fails (network failure, non-2xx response,
\* malformed body) leaves the displayed preview, the document title, the
\* active serial and the pending timer as they were; whatever failed before,
\* a timer that fires still sends a request with the next serial, and the
\* successful response to the request with the active serial is applied.
C14_FailureLeavesPreviewUsable ==
    [][/\ \A r \in inflight :
            (Ends(r) /\ lastSettled' = [serial |-> r.serial, outcome |-> "error"])
                => /\ UNCHANGED <<previewOutput, documentTitle, activePreviewSerial,
                                  previewTimer, timers>>
                   /\ previewStatus'.variant = "error"
       /\ \A t \in timers :
            (timers' = timers \ {t} /\ previewTimer' = previewTimer /\ urls.preview)
                => /\ activePreviewSerial' = activePreviewSerial + 1
                   /\ \E r \in inflight' \ inflight :
                         r.serial = activePreviewSerial' /\ r.pc = "fetch"
       /\ \A r \in inflight :
            (/\ r.pc = "json" /\ r.serial = activePreviewSerial
             /\ Ends(r) /\ lastSettled'.outcome # "error")
                => /\ previewOutput' = [serial |-> r.serial, timer |-> r.timer]
                   /\ previewStatus' = StatusApplied]_vars

\* a request applied, a later one failed while a timer was pending: the
\* earlier output is still shown and the timer is still pending
C14_Witness ==
    /\ lastSettled = [serial |-> activePreviewSerial, outcome |-> "error"]
    /\ previewStatus.variant = "error"
    /\ previewOutput.serial >= 1
    /\ previewOutput.serial < activePreviewSerial
    /\ timers # {}

(***************************************************************************)
(* Properties of the list-marker editors.                                  *)
(***************************************************************************)
GatheredThemes == {r.theme : r \in inflight} \cup {gatherTheme(Dom)}

\* C6: in every gathered theme customOrderedBase is an integer in [2,10] and
\* customOrderedDigits has exactly that many entries, the toggle on or off and
\* whatever the digit rows contain; a gather also leaves the base control
\* holding that base.
C6_DigitsMatchBase ==
    /\ \A th \in GatheredThemes :
          /\ th.customOrderedBase.t = "number"
          /\ th.customOrderedBase.n % Scale = 0
          /\ BaseOf(th.customOrderedBase) \in MinBase..MaxBase
          /\ Len(th.customOrderedDigits) = BaseOf(th.customOrderedBase)
    /\ Len(gatherTheme(Dom).customOrderedDigits)
          = BaseOf(sanitizeOrderedBase(Str(customOrderedBase.value)))

\* a theme gathered with the toggle off, after the base was typed as 11, from
\* rows of which some are blank
C6_Witness ==
    \E r \in inflight :
        /\ ~r.theme.useCustomOrdered
        /\ Len(r.theme.customOrderedDigits) = MaxBase
        /\ customOrderedBase.value = IntToStr(MaxBase)
        /\ \E i \in DOMAIN orderedRows : Trim(orderedRows[i].value) = <<>>

BaseEdit == BaseChange \/ \E v \in BaseInputs : BaseInput(v)

C8_SanitizeIdempotentInRange ==
    probeOut.done =>
        /\ probeOut.value.t = "number"
        /\ probeOut.value.n % Scale = 0
        /\ BaseOf(probeOut.value) \in MinBase..MaxBase
        /\ probeOut.again = probeOut.value

\* a numeric string above the range, clamped to 10
C8_Witness ==
    /\ probeOut.done
    /\ probeArg = Str(<<"1", "0", ".", "5">>)
    /\ probeOut.value = NumInt(MaxBase)
    /\ probeOut.again = NumInt(MaxBase)

\* C9: the bullet editor always shows at least one row, and whenever exactly
\* one row remains its remove control is disabled.
C9_BulletRowsNeverEmpty ==
    /\ Len(bulletRows) >= 1
    /\ Len(bulletRows) = 1 => bulletRows[1].removeDisabled

\* the first of the two default bullets removed with the editor enabled
C9_Witness ==
    /\ defaultBulletSequence = << <<"*">>, <<"o">> >>
    /\ toggleCustomBullets
    /\ Len(bulletRows) = 1
    /\ bulletRows[1].value = <<"o">>
    /\ bulletRows[1].removeDisabled

IsBlank(s) == \A i \in DOMAIN s : IsSpace(s[i])

\* C10: in every gathered theme customBulletSequence holds no empty or
\* whitespace-only entry and useCustomBullets implies a non-empty sequence;
\* the theme gathered from the current controls has useCustomBullets true
\* exactly when the toggle is checked and some bullet row is not blank.
C10_UseCustomBulletsNeedsBullets ==
    /\ \A th \in GatheredThemes :
          /\ \A i \in DOMAIN th.customBulletSequence :
                ~IsBlank(th.customBulletSequence[i])
          /\ th.useCustomBullets => Len(th.customBulletSequence) >= 1
    /\ gatherTheme(Dom).useCustomBullets
          <=> (toggleCustomBullets
                  /\ \E i \in DOMAIN bulletRows : ~IsBlank(bulletRows[i].value))

\* a theme gathered with the toggle checked and only blank rows
C10_Witness ==
    /\ toggleCustomBullets
    /\ \A i \in DOMAIN bulletRows : IsBlank(bulletRows[i].value)
    /\ \E r \in inflight :
          /\ r.theme = gatherTheme(Dom)
          /\ ~r.theme.useCustomBullets
          /\ r.theme.customBulletSequence = <<>>

RECURSIVE TrimmedNonBlank(_)
TrimmedNonBlank(rows) ==
    IF rows = <<>> THEN <<>>
    ELSE (IF IsBlank(Head(rows).value) THEN <<>> ELSE <<Trim(Head(rows).value)>>)
            \o TrimmedNonBlank(Tail(rows))

\* C11: adding a bullet row appends one empty row after the existing ones,
\* removing row i deletes that row and shifts the later ones up, typing in a
\* row changes that row only; in each case every other row keeps its value
\* and its place, and what is read from the rows is their trimmed non-blank
\* values in row order.
C11_AddRemoveKeepOtherRows ==
    [][/\ AddBullet =>
            /\ Len(bulletRows') = Len(bulletRows) + 1
            /\ bulletRows'[Len(bulletRows')].value = <<>>
            /\ \A j \in DOMAIN bulletRows : bulletRows'[j].value = bulletRows[j].value
       /\ \A i \in DOMAIN bulletRows : RemoveBulletRow(i) =>
            /\ Len(bulletRows') = Len(bulletRows) - 1
            /\ \A j \in DOMAIN bulletRows' :
                  bulletRows'[j].value =
                      IF j < i THEN bulletRows[j].value ELSE bulletRows[j + 1].value
       /\ \A i \in DOMAIN bulletRows : \A v \in BulletInputs : EditBulletRow(i, v) =>
            /\ Len(bulletRows') = Len(bulletRows)
            /\ \A j \in DOMAIN bulletRows :
                  bulletRows'[j].value = IF j = i THEN v ELSE bulletRows[j].value
       /\ readBulletSequence(bulletRows') = TrimmedNonBlank(bulletRows')]_vars

\* a row added after the two default bullets and typed into: it is read last
C11_Witness ==
    /\ defaultBulletSequence = << <<"*">>, <<"o">> >>
    /\ Len(bulletRows) = 3
    /\ bulletRows[3].value = <<" ", "b">>
    /\ readBulletSequence(bulletRows) = << <<"*">>, <<"o">>, <<"b">> >>

(***************************************************************************)
(* Properties of the PDF export.                                           *)
(***************************************************************************)

\* C12: every export that was started ends, on whichever path (download,
\* non-2xx response, network failure, failure while reading the body), and
\* then no loading overlay is in the document and the download button is
\* enabled again.
C12_ExportEndsCleanedUp ==
    \A id \in 1..MaxExports :
        (\E x \in exports : x.id = id)
            ~> (/\ \A x \in exports : x.id # id
                /\ overlay = 0
                /\ ~btnDownload.disabled)

\* an export that showed the overlay and failed while its body was read
C12_Witness ==
    /\ loadingTemplate
    /\ exports = {}
    /\ alerts = <<[export |-> 1, message |-> AlertGeneric]>>
    /\ overlay = 0
    /\ ~btnDownload.disabled

CountOf(log, id) == Cardinality({i \in DOMAIN log : log[i].export = id})

\* every request sent is in flight or has ended in one alert or one download
ExportsAccounted ==
    /\ Cardinality(exports) + Len(alerts) + Len(downloads) = exportCount
    /\ \A id \in 1..exportCount :
          CountOf(alerts, id) + CountOf(downloads, id)
              = IF \E x \in exports : x.id = id THEN 0 ELSE 1
    /\ \A i \in DOMAIN alerts : alerts[i].message # ""

\* C13: an export that fails ends in exactly one alert and no download, the
\* alert carrying the payload's error message when the non-2xx response has
\* one, the status message when it has none, and the failure's own message or
\* the generic one for a network failure or an unreadable body; an export
\* that succeeds ends in exactly one download and no alert; ending an export
\* sends no request, of either kind.
C13_FailureAlertsOnceSuccessDownloadsOnce ==
    [][/\ ExportsAccounted'
       /\ \A x \in exports : (\A y \in exports' : y.id # x.id) =>
            /\ exportCount' = exportCount
            /\ exports' = exports \ {x}
            /\ inflight' = inflight
            /\ \/ /\ downloads' = downloads
                  /\ Len(alerts') = Len(alerts) + 1
                  /\ SubSeq(alerts', 1, Len(alerts)) = alerts
                  /\ alerts'[Len(alerts')].export = x.id
                  /\ alerts'[Len(alerts')].message \in
                        CASE x.pc = "errorBody" ->
                                (PayloadErrors \ {""}) \cup {ExportFailed(x.code)}
                          [] OTHER ->
                                (RejectMessages \ {""}) \cup {AlertGeneric}
               \/ /\ x.pc = "blob"
                  /\ alerts' = alerts
                  /\ Len(downloads') = Len(downloads) + 1
                  /\ SubSeq(downloads', 1, Len(downloads)) = downloads
                  /\ downloads'[Len(downloads')].export = x.id]_vars

\* a first export answered 500 with {"error": "render failed"}, a second one
\* downloaded
C13_Witness ==
    /\ exports = {}
    /\ alerts = <<[export |-> 1, message |-> "render failed"]>>
    /\ Len(downloads) = 1
    /\ downloads[1].export = 2

(***************************************************************************)
(* Properties of the toggles, the reset and the base.                      *)
(***************************************************************************)

\* C15: while the custom-bullets toggle is off, every row input, every row's
\* remove control and the add control of the bullet editor are disabled.
C15_BulletEditorOffIsInert ==
    ~toggleCustomBullets =>
        /\ btnAddBullet.disabled
        /\ \A i \in DOMAIN bulletRows :
              bulletRows[i].disabled /\ bulletRows[i].removeDisabled

\* the controls right after startup
StartupDom == setControlInitialValues(BlankDom, defaultTheme)

\* the theme controls of a set of controls: all but the markdown text
ThemeControls(c) == [c EXCEPT !.markdown = <<>>]

\* C16: a reset leaves every theme control with the value it had right after
\* startup, schedules an immediate preview, and resetting again changes
\* nothing.
C16_ResetRestoresStartup ==
    [][ClickReset =>
        /\ ThemeControls(Dom') = ThemeControls(StartupDom)
        /\ timers' = {[id |-> previewTimer', delay |-> 0]}
        /\ setControlInitialValues(Dom', defaultTheme) = Dom']_vars

\* C17: sanitizeOrderedBase returns clamp(round(n), 2, 10) when the raw value
\* parses to a finite number n, and the default base when it does not: for
\* undefined, NaN, non-numeric text and a blank text.
C17_SanitizeRoundsOrDefaults ==
    (probeOut.done /\ probeArg.t \in {"number", "string", "undefined", "nan"}) =>
        probeOut.value =
            IF \/ probeArg.t = "string" /\ IsBlank(probeArg.s)
               \/ ~IsFinite(ToNumber(probeArg))
            THEN DEFAULT_ORDERED_BASE
            ELSE clamp(MathRound(ToNumber(probeArg)), MinBase, MaxBase)

\* the digit expected at row i (1-based) of the current digit rows
ExpectedDigit(i) ==
    LET typed == IF i <= Len(orderedRows) THEN Trim(orderedRows[i].value) ELSE <<>>
    IN  IF typed # <<>> THEN typed
        ELSE IF i <= Len(defaultOrderedDigits) /\ defaultOrderedDigits[i] # <<>>
        THEN defaultOrderedDigits[i]
        ELSE IntToStr(i - 1)

\* C18: in the theme gathered from the controls, the digit at each position is
\* the trimmed row value when that is non-empty, otherwise the default digit
\* of the position when there is a non-empty one, otherwise the position
\* written as a number; every digit of every gathered theme is a non-empty
\* string.
C18_DigitsRepaired ==
    /\ \A i \in DOMAIN gatherTheme(Dom).customOrderedDigits :
          gatherTheme(Dom).customOrderedDigits[i] = ExpectedDigit(i)
    /\ \A th \in GatheredThemes :
          \A i \in DOMAIN th.customOrderedDigits : th.customOrderedDigits[i] # <<>>

\* a request sent after the base was typed as 4 over three defaults and a row
\* was blanked: the blank row carries its default, the new row its index
C18_Witness ==
    \E r \in inflight :
        /\ Len(defaultOrderedDigits) = 3
        /\ Len(orderedRows) = 4
        /\ orderedRows[4].value = <<>>
        /\ \E i \in 1..3 : orderedRows[i].value = <<" ">>
                              /\ r.theme.customOrderedDigits[i] = defaultOrderedDigits[i]
        /\ r.theme.customOrderedDigits[4] = <<"3">>
        /\ r.theme = gatherTheme(Dom)

(***************************************************************************)
(* Properties of the serial and of the debounce timer.                     *)
(***************************************************************************)
NewRequests == {r \in inflight' : \A q \in inflight : q.serial # r.serial}

\* C19: the active serial changes, and a preview request is sent, only in a
\* step in which a pending timer fires; the serial then grows by one and
\* exactly one request is sent, carrying the new serial. No response, no
\* schedulePreview call and no step of an export does either, so the requests
\* in flight carry distinct serials and no serial is ever used again.
C19_SerialChangesOnlyOnTimerFire ==
    [][/\ (activePreviewSerial' # activePreviewSerial \/ NewRequests # {}) =>
            /\ \E t \in timers : timers' = timers \ {t}
            /\ previewTimer' = previewTimer
            /\ activePreviewSerial' = activePreviewSerial + 1
            /\ inflight \subseteq inflight'
            /\ Cardinality(NewRequests) = 1
            /\ \A r \in NewRequests : r.serial = activePreviewSerial' /\ r.pc = "fetch"
            /\ UNCHANGED <<exports, exportCount, alerts, downloads>>
       /\ \A r1, r2 \in inflight' : r1.serial = r2.serial => r1 = r2
       /\ \A r \in inflight' : r.serial <= activePreviewSerial']_vars

\* the second request failed and an export ran: nothing is in flight, nothing
\* is pending, the serial is still 2
C19_Witness ==
    /\ activePreviewSerial = 2
    /\ lastSettled = [serial |-> 2, outcome |-> "error"]
    /\ inflight = {}
    /\ timers = {}
    /\ exports = {}
    /\ exportCount >= 1

\* C20: at most one debounce timer is pending, and it is the one started by
\* the latest schedulePreview call: every earlier timer was cancelled by the
\* call that followed it and can no longer fire.
C20_OneTimerPending ==
    /\ Cardinality(timers) <= 1
    /\ \A t \in timers : t.id = previewTimer

\* a title edit's 280ms timer replaced the initial one and was itself
\* replaced by an immediate one before any timer fired
C20_Witness ==
    /\ urls.preview
    /\ title \in TitleInputs
    /\ activePreviewSerial = 0
    /\ previewTimer = 3
    /\ timers = {[id |-> 3, delay |-> 0]}

(***************************************************************************)
(* Properties of requests in flight together.                              *)
(***************************************************************************)
\* the payload carried by a request in flight
PayloadOf(q) == [markdown |-> q.markdown, theme |-> q.theme, title |-> q.title]

\* the payload a dispatch in the current state gathers from the controls
GatheredPayload ==
    [markdown |-> markdown, theme |-> gatherTheme(Dom), title |-> gatherTheme(Dom).title]

\* C21: preview and export requests may be in flight together, and the
\* payload (markdown, theme, title) of each request is the snapshot gathered
\* from the controls at its own dispatch: no step (an edit, a reset, a
\* dispatch of either kind, the end of another request) changes the payload
\* of a request that stays in flight.
C21_PayloadIsDispatchSnapshot ==
    [][/\ \A r \in inflight : \A q \in inflight' :
            q.serial = r.serial => PayloadOf(q) = PayloadOf(r)
       /\ \A x \in exports : \A y \in exports' :
            y.id = x.id => PayloadOf(y) = PayloadOf(x)
       /\ \A q \in inflight' :
            (\A r \in inflight : r.serial # q.serial) => PayloadOf(q) = GatheredPayload
       /\ \A y \in exports' :
            (\A x \in exports : x.id # y.id) => PayloadOf(y) = GatheredPayload]_vars

\* a preview and an export in flight together with different titles, and
\* the controls edited again since both were sent
C21_Witness ==
    \E r \in inflight : \E x \in exports :
        /\ r.title # x.title
        /\ GatheredPayload \notin {PayloadOf(r), PayloadOf(x)}

\* C22: when a preview response is applied, the document title becomes the
\* title of the theme snapshot sent with the applied request, decorated with
\* the product name, also when an export or a reset took place while the
\* request was in flight.
C22_TitleFromAppliedRequest ==
    [][\A r \in inflight :
          (/\ r.pc = "json" /\ Ends(r)
           /\ lastSettled' = [serial |-> r.serial, outcome |-> "applied"])
              => documentTitle' = DecoratedTitle(r.title)]_vars

(***************************************************************************)
(* Properties of the preview status and the dirty flag.                    *)
(***************************************************************************)
Quiet == timers = {} /\ inflight = {}

ActiveInFlight == \E r \in inflight : r.serial = activePreviewSerial

\* C23 as stated: the status is loading only while the request with the
\* active serial is in flight, and once no timer is pending and no request is
\* in flight the status is the success status or an error status.
C23_StatusSettles ==
    /\ previewStatus.variant = "loading" => ActiveInFlight
    /\ Quiet => (previewStatus = StatusApplied \/ previewStatus.variant = "error")

\* C23 amended: the status is loading only while the request with the active
\* serial is in flight; once no timer is pending and no request is in flight,
\* the status is the success status or an error status if a request was ever
\* sent, and otherwise (a page without a preview URL) it is still the status
\* the page was served with.
C23_StatusSettlesOnceSent ==
    /\ previewStatus.variant = "loading" => ActiveInFlight
    /\ (Quiet /\ activePreviewSerial >= 1)
          => (previewStatus = StatusApplied \/ previewStatus.variant = "error")
    /\ activePreviewSerial = 0 => previewStatus = StatusServed

\* request 2 was applied, then the superseded request 1 failed: nothing is
\* pending, the status is an error status, not loading
C23_Witness ==
    /\ Quiet
    /\ previewOutput.serial = 2 /\ activePreviewSerial = 2
    /\ lastSettled = [serial |-> 1, outcome |-> "error"]
    /\ previewStatus.variant = "error"

(***************************************************************************)
(* Properties of the export trigger and the loading overlay.               *)
(***************************************************************************)
\* C24: at most one export request is in flight and at most one loading
\* overlay is in the document; the download button is disabled exactly while
\* an export is in flight, so no second export starts; a show request made
\* while an overlay is displayed leaves that one overlay; and while an export
\* is in flight on a page that has the overlay template the overlay is there.
C24_OneExportOneOverlay ==
    /\ Cardinality(exports) <= 1
    /\ overlay <= 1
    /\ btnDownload.disabled <=> exports # {}
    /\ overlay > 0 => toggleLoading(overlay, TRUE) = overlay
    /\ (exports # {} /\ loadingTemplate) => overlay = 1
    /\ exports = {} => overlay = 0

\* the second export of the run in flight behind its overlay, the first one
\* having failed
C24_Witness ==
    /\ loadingTemplate
    /\ \E x \in exports : x.id = 2 /\ x.pc = "blob" /\ x.overlay
    /\ overlay = 1
    /\ btnDownload.disabled
    /\ Len(alerts) = 1

(***************************************************************************)
(* Properties of the base control.                                         *)
(***************************************************************************)
RowsMatchBase ==
    Len(orderedRows) = BaseOf(sanitizeOrderedBase(Str(customOrderedBase.value)))

\* a gather took place in this step: a preview or an export was dispatched
Gathers ==
    \/ activePreviewSerial' # activePreviewSerial
    \/ exportCount' # exportCount

\* C25: in every reachable state the number of digit rows equals
\* sanitizeOrderedBase of the current value of the base control; a gather
\* for a preview or an export leaves the base control holding its sanitized
\* value and changes neither the number nor the values of the digit rows.
C25_RowsMatchBaseControl ==
    /\ []RowsMatchBase
    /\ [][Gathers =>
            /\ orderedRows' = orderedRows
            /\ customOrderedBase'.value =
                  BaseText(sanitizeOrderedBase(Str(customOrderedBase.value)))
            /\ customOrderedBase'.disabled = customOrderedBase.disabled]_vars

\* the user typed 11 into the base control, ten rows were rendered, and the
\* gather of the preview that followed rewrote the control to 10
C25_Witness ==
    /\ previewTimer = 2
    /\ activePreviewSerial = 1
    /\ customOrderedBase.value = <<"1", "0">>
    /\ Len(orderedRows) = 10

\* C26: whenever state.isPreviewDirty is false no debounce timer is pending:
\* no response is applied, and the preview marked clean, after a newer
\* preview was scheduled and before it is dispatched.
C26_CleanMeansNoTimerPending ==
    ~state.isPreviewDirty => timers = {}

====
